---- MODULE Spec2Model ----
(***************************************************************************)
(* CellUniverse: the windowed global-optimization driver of src/main.py    *)
(* (main, parse_args, get_inputfiles) and the frame listing of             *)
(* src/global_optimization/CellUniverse.py (get_image_file_paths).         *)
(*                                                                         *)
(* Three specifications share the module:                                  *)
(*   Spec      the driver main(args) with --global_optimization            *)
(*   SpecArgs  parse_args on bounded command lines                         *)
(*   SpecFiles the two frame-listing functions on bounded directories      *)
(* Frame f of a Python list is element f + 1 of the TLA+ sequence.         *)
(***************************************************************************)
EXTENDS Integers, Sequences, FiniteSets, TLC

\* ---------------------------------------------------------------- bounds
MaxWindow == 3      \* largest global_optimizer.window_size drawn
MaxFrames == 4      \* largest number of input frames drawn
MaxPad == 1         \* the non-zero simulation.padding drawn
MaxArg == 2         \* largest --workers / --jobs / --keep / cpu count drawn
MaxFile == 3        \* largest frame index an input file may exist for
ImgH == 2           \* rows of an input image before padding
ImgW == 3           \* columns of an input image before padding

\* ------------------------------------------------------------- variables
VARIABLES
    mode,             \* which entry point runs: "main", "parse_args", "listing"
    pc,               \* position of main()
    err,              \* the exception that ended main(), "" when none
    args,             \* the argparse namespace main() receives
    config,           \* the loaded configuration (sa_config)
    nframes,          \* len(imagefiles) = len(realimages)
    lineagefile,      \* lines of lineage.csv, one entry per header / frame
    fileOpen,         \* lineagefile is open
    outputs,          \* frames save_output has written, in order
    lineage,          \* lineage.frames
    copy_forward_calls, \* number of lineage.copy_forward() calls
    padBound,         \* the local `pad` of main() has been assigned
    pad,              \* its value
    shape,            \* the render shape
    realimages, synthimages, cellmaps,   \* the image lists
    realimage, synthimage, cellmap,      \* the locals of the loop body
    window_start, window_end,
    totalCostDiff,    \* what global_optimize.totalCostDiff was computed from
    calls,            \* log of copy_forward / auto_temp_schedule / global_optimize
    returned,         \* window starts whose annealing job has returned
    perturbed,        \* an annealing job has changed cell parameters
    cmdline, parsed,  \* parse_args: the command line and what it returns
    listing           \* frame listing: the inputs and both results

mainVars == <<pc, err, args, config, nframes, lineagefile, fileOpen, outputs,
              lineage, copy_forward_calls, padBound, pad, shape, realimages,
              synthimages, cellmaps, realimage, synthimage, cellmap,
              window_start, window_end, totalCostDiff, calls, returned,
              perturbed>>
vars == <<mode, mainVars, cmdline, parsed, listing>>

\* --------------------------------------------------------------- helpers
Min(a, b) == IF a < b THEN a ELSE b
Max(a, b) == IF a > b THEN a ELSE b

NoStamp == [kind |-> "none", at |-> 0]
NoImage == [h |-> 0, w |-> 0, frame |-> -1]
Header == [kind |-> "header", frame |-> -1, ver |-> NoStamp]

\* sim_start = args.continue_from - args.frame_first
SimStart(a) == a.continue_from - a.frame_first

\* window_end = window_start + window
WindowEnd(ws, w) == ws + w

\* range(1 - window, len(realimages)): the first value and the test for more
FirstWindowStart(w) == 1 - w
InRange_StopsEarly(ws, n) == ws < n - 1
InRange(ws, n) == ws < n

\* optimization.auto_temp_schedule_frame(frame, k_frame)
auto_temp_schedule_frame(frame, k) == frame % k = 0

\* create_lineage: the frames of the lineage the run starts with
create_lineage(n) == [i \in 1..n |-> [shift |-> 0, origin |-> "seed", ver |-> NoStamp]]

\* lineage.copy_forward(): a new last frame copied from the current last one
copy_forward(lin) ==
    Append(lin, [shift |-> lin[Len(lin)].shift, origin |-> "copy", ver |-> NoStamp])

\* the x/y shift of every cell of every frame by the padding
ShiftCells(lin, p) == [i \in 1..Len(lin) |-> [lin[i] EXCEPT !.shift = @ + p]]

\* np.pad(image, [(pad, pad), (pad, pad)])
np_pad(img, p) == [img EXCEPT !.h = @ + 2 * p, !.w = @ + 2 * p]

\* the guards of the loop body
CopiesForward(ws, we, ss) == ws >= ss /\ we > 1
Dispatches(ws, ss) == ws >= ss
Commits_SkipsFirst(ws) == ws > 0
Commits(ws) == ws >= 0
CommitIndex_Ahead(ws) == ws + 1
CommitIndex(ws) == ws

CallRec(fn, ws, we) ==
    [fn |-> fn, window_start |-> ws, window_end |-> we,
     committed |-> {lineagefile[j].frame : j \in 2..Len(lineagefile)}]

\* ------------------------------------------------------------------ main
Temps == {"None", "manual"}
StartPairs(n) ==
    {<<cf, 0>> : cf \in 0..n} \cup {<<0, ff>> : ff \in 1..(MaxWindow - 1)}

\* the state of main() before its first statement
FreshMain ==
    /\ err = ""
    /\ lineagefile = <<>>
    /\ fileOpen = FALSE
    /\ outputs = <<>>
    /\ lineage = <<>>
    /\ copy_forward_calls = 0
    /\ padBound = FALSE
    /\ pad = 0
    /\ shape = [h |-> 0, w |-> 0]
    /\ realimages = <<>>
    /\ synthimages = <<>>
    /\ cellmaps = <<>>
    /\ realimage = NoImage
    /\ synthimage = NoStamp
    /\ cellmap = NoStamp
    /\ window_start = 0
    /\ window_end = 0
    /\ totalCostDiff = [real |-> NoImage, synth |-> NoStamp, cellmap |-> NoStamp]
    /\ calls = <<>>
    /\ returned = {}
    /\ perturbed = FALSE

InitMain ==
    /\ mode = "main"
    /\ pc = "start"
    /\ FreshMain
    /\ nframes \in 1..MaxFrames
    /\ \E p \in StartPairs(nframes), at \in 0..1, st \in Temps, et \in Temps,
          am \in {"none", "frame"}, lf \in 1..nframes :
          args = [continue_from |-> p[1], frame_first |-> p[2], auto_temp |-> at,
                  start_temp |-> st, end_temp |-> et, auto_meth |-> am,
                  lineage_frames |-> lf]
    /\ \E w \in 1..MaxWindow, ipc \in 0..1, mk \in BOOLEAN, hp \in BOOLEAN,
          pv \in {0, MaxPad} :
          /\ (~hp => pv = 0)
          /\ config = [window_size |-> w, iteration_per_cell |-> ipc,
                       modification_keys |-> mk, has_padding |-> hp, padding |-> pv]

\* main() is not running (the other entry points are modelled on their own)
IdleMain ==
    /\ pc = "idle"
    /\ args = [used |-> FALSE]
    /\ config = [used |-> FALSE]
    /\ nframes = 0
    /\ FreshMain

IdleArgs == cmdline = [used |-> FALSE] /\ parsed = [status |-> "idle"]
IdleListing == listing = [used |-> FALSE]

\* an exception leaves main() through the finally clause, which closes the file
Raise(e) ==
    /\ pc' = "failed"
    /\ err' = e
    /\ fileOpen' = FALSE

\* main.py:175-176
CheckTemps ==
    /\ mode = "main" /\ pc = "start"
    /\ IF (args.start_temp # "None" \/ args.end_temp # "None") /\ args.auto_temp = 1
       THEN /\ pc' = "failed"
            /\ err' = "Exception"
       ELSE /\ pc' = "open"
            /\ err' = err
    /\ UNCHANGED <<mode, args, config, nframes, lineagefile, fileOpen, outputs,
                   lineage, copy_forward_calls, padBound, pad, shape, realimages,
                   synthimages, cellmaps, realimage, synthimage, cellmap,
                   window_start, window_end, totalCostDiff, calls, returned,
                   perturbed, cmdline, parsed, listing>>

\* main.py:196-235: the lineage file is opened for writing and gets its header
OpenLineage ==
    /\ mode = "main" /\ pc = "open"
    /\ lineagefile' = <<Header>>
    /\ fileOpen' = TRUE
    /\ pc' = "setup"
    /\ UNCHANGED <<mode, err, args, config, nframes, outputs,
                   lineage, copy_forward_calls, padBound, pad, shape, realimages,
                   synthimages, cellmaps, realimage, synthimage, cellmap,
                   window_start, window_end, totalCostDiff, calls, returned,
                   perturbed, cmdline, parsed, listing>>

\* main.py:237-282
GlobalSetup ==
    /\ mode = "main" /\ pc = "setup"
    /\ IF config.modification_keys /\ config.iteration_per_cell = 0
       THEN \* value / sa_config["iteration_per_cell"]
            /\ Raise("ZeroDivisionError")
            /\ UNCHANGED <<lineage, padBound, pad, shape, realimages, window_start>>
       ELSE /\ realimages' = [i \in 1..nframes |-> [h |-> ImgH, w |-> ImgW, frame |-> i - 1]]
            /\ IF config.has_padding
               THEN /\ padBound' = TRUE
                    /\ pad' = config.padding
                    /\ shape' = [h |-> ImgH + 2 * config.padding,
                                 w |-> ImgW + 2 * config.padding]
                    /\ lineage' = ShiftCells(create_lineage(args.lineage_frames),
                                             config.padding)
               ELSE /\ UNCHANGED <<padBound, pad>>
                    /\ shape' = [h |-> ImgH, w |-> ImgW]
                    /\ lineage' = create_lineage(args.lineage_frames)
            /\ window_start' = FirstWindowStart(config.window_size)
            /\ pc' = "loop"
            /\ UNCHANGED <<err, fileOpen>>
    /\ UNCHANGED <<mode, args, config, nframes, lineagefile, outputs,
                   copy_forward_calls, synthimages, cellmaps, realimage,
                   synthimage, cellmap, window_end, totalCostDiff, calls,
                   returned, perturbed, cmdline, parsed, listing>>

\* main.py:283-285 and, when the range is exhausted, 324 with the finally clause
LoopHead ==
    /\ mode = "main" /\ pc = "loop"
    /\ IF InRange(window_start, nframes)
       THEN /\ window_end' = WindowEnd(window_start, config.window_size)
            /\ pc' = "estimate"
            /\ UNCHANGED fileOpen
       ELSE /\ pc' = "done"
            /\ fileOpen' = FALSE
            /\ UNCHANGED window_end
    /\ UNCHANGED <<mode, err, args, config, nframes, lineagefile, outputs,
                   lineage, copy_forward_calls, padBound, pad, shape, realimages,
                   synthimages, cellmaps, realimage, synthimage, cellmap,
                   window_start, totalCostDiff, calls, returned,
                   perturbed, cmdline, parsed, listing>>

\* main.py:286-302
Estimate ==
    /\ mode = "main" /\ pc = "estimate"
    /\ IF window_end <= nframes
       THEN LET doCopy == CopiesForward(window_start, window_end, SimStart(args))
                lin == IF doCopy THEN copy_forward(lineage) ELSE lineage
                stamp == [kind |-> "render", at |-> window_end]
            IN  /\ lineage' = lin
                /\ copy_forward_calls' = copy_forward_calls + (IF doCopy THEN 1 ELSE 0)
                /\ calls' = IF doCopy
                            THEN Append(calls, CallRec("copy_forward", window_start, window_end))
                            ELSE calls
                /\ IF ~padBound
                   THEN \* `if pad > 0` with pad never assigned
                        /\ Raise("UnboundLocalError")
                        /\ UNCHANGED <<realimages, synthimages, cellmaps,
                                       realimage, synthimage, cellmap>>
                   ELSE IF Len(lin) < window_end
                   THEN \* lineage.frames[window_end - 1]
                        /\ Raise("IndexError")
                        /\ UNCHANGED <<realimages, synthimages, cellmaps,
                                       realimage, synthimage, cellmap>>
                   ELSE /\ realimages' =
                              IF pad > 0
                              THEN [realimages EXCEPT ![window_end] = np_pad(@, pad)]
                              ELSE realimages
                        /\ realimage' = realimages'[window_end]
                        /\ synthimage' = stamp
                        /\ cellmap' = stamp
                        /\ synthimages' = Append(synthimages, stamp)
                        /\ cellmaps' = Append(cellmaps, stamp)
                        /\ pc' = "autotemp"
                        /\ UNCHANGED <<err, fileOpen>>
       ELSE /\ pc' = "dispatch"
            /\ UNCHANGED <<err, fileOpen, lineage, copy_forward_calls, calls,
                           realimages, synthimages, cellmaps, realimage,
                           synthimage, cellmap>>
    /\ UNCHANGED <<mode, args, config, nframes, lineagefile, outputs, padBound,
                   pad, shape, window_start, window_end, totalCostDiff,
                   returned, perturbed, cmdline, parsed, listing>>

\* main.py:303-314
AutoTemp ==
    /\ mode = "main" /\ pc = "autotemp"
    /\ LET first == args.auto_temp = 1 /\ window_end = 1
           again == args.auto_meth = "frame" /\ auto_temp_schedule_frame(window_end, 3)
           c1 == IF first THEN Append(calls, CallRec("auto_temp_schedule", 0, 1))
                 ELSE calls
           c2 == IF again
                 THEN Append(c1, CallRec("auto_temp_schedule", window_start, window_end))
                 ELSE c1
       IN  /\ calls' = c2
           /\ args' = IF first \/ again
                      THEN [args EXCEPT !.start_temp = "auto", !.end_temp = "auto"]
                      ELSE args
    /\ pc' = "dispatch"
    /\ UNCHANGED <<mode, err, config, nframes, lineagefile, fileOpen, outputs,
                   lineage, copy_forward_calls, padBound, pad, shape, realimages,
                   synthimages, cellmaps, realimage, synthimage, cellmap,
                   window_start, window_end, totalCostDiff, returned,
                   perturbed, cmdline, parsed, listing>>

\* main.py:315-320: the baseline, and the annealing job handed to global_optimize
Dispatch ==
    /\ mode = "main" /\ pc = "dispatch"
    /\ IF Dispatches(window_start, SimStart(args))
       THEN /\ totalCostDiff' = [real |-> realimage, synth |-> synthimage,
                                 cellmap |-> cellmap]
            /\ calls' = Append(calls, CallRec("global_optimize", window_start, window_end))
            /\ pc' = "optimizing"
       ELSE /\ pc' = "commit"
            /\ UNCHANGED <<totalCostDiff, calls>>
    /\ UNCHANGED <<mode, err, args, config, nframes, lineagefile, fileOpen, outputs,
                   lineage, copy_forward_calls, padBound, pad, shape, realimages,
                   synthimages, cellmaps, realimage, synthimage, cellmap,
                   window_start, window_end, returned,
                   perturbed, cmdline, parsed, listing>>

\* the frames an annealing job over [ws, we) can change
InWindow(f, ws, we, n) == Max(ws, 0) <= f /\ f < Min(we, n)

\* main.py:320: global_optimize returns the lineage and the image lists
OptimizeReturn ==
    /\ mode = "main" /\ pc = "optimizing"
    /\ \E changed \in BOOLEAN :
          /\ (changed => config.iteration_per_cell > 0)
          /\ LET stamp == [kind |-> "optimized", at |-> window_start]
                 upd(s) == [i \in 1..Len(s) |->
                              IF changed /\ InWindow(i - 1, window_start, window_end, Len(synthimages))
                              THEN stamp ELSE s[i]]
             IN  /\ synthimages' = upd(synthimages)
                 /\ cellmaps' = upd(cellmaps)
                 /\ lineage' = [i \in 1..Len(lineage) |->
                                  IF changed /\ InWindow(i - 1, window_start, window_end, Len(synthimages))
                                  THEN [lineage[i] EXCEPT !.ver = stamp]
                                  ELSE lineage[i]]
                 /\ perturbed' = (perturbed \/ changed)
    /\ returned' = returned \cup {window_start}
    /\ pc' = "commit"
    /\ UNCHANGED <<mode, err, args, config, nframes, lineagefile, fileOpen, outputs,
                   copy_forward_calls, padBound, pad, shape, realimages,
                   realimage, synthimage, cellmap,
                   window_start, window_end, totalCostDiff, calls,
                   cmdline, parsed, listing>>

\* main.py:321-323, and the step of the for loop
Commit ==
    /\ mode = "main" /\ pc = "commit"
    /\ IF Commits(window_start)
       THEN LET f == CommitIndex(window_start)
            IN  IF f + 1 > Len(lineage) \/ f + 1 > Len(synthimages) \/ f + 1 > nframes
                THEN /\ Raise("IndexError")
                     /\ UNCHANGED <<lineagefile, outputs, window_start>>
                ELSE /\ lineagefile' = Append(lineagefile,
                            [kind |-> "frame", frame |-> f, ver |-> lineage[f + 1].ver])
                     /\ outputs' = Append(outputs, f)
                     /\ window_start' = window_start + 1
                     /\ pc' = "loop"
                     /\ UNCHANGED <<err, fileOpen>>
       ELSE /\ window_start' = window_start + 1
            /\ pc' = "loop"
            /\ UNCHANGED <<err, fileOpen, lineagefile, outputs>>
    /\ UNCHANGED <<mode, args, config, nframes,
                   lineage, copy_forward_calls, padBound, pad, shape, realimages,
                   synthimages, cellmaps, realimage, synthimage, cellmap,
                   window_end, totalCostDiff, calls, returned,
                   perturbed, cmdline, parsed, listing>>

Running == {"open", "setup", "loop", "estimate", "autotemp", "dispatch",
            "optimizing", "commit"}

\* main.py:329-333: KeyboardInterrupt at any point inside the try block
KeyboardInterrupt ==
    /\ mode = "main" /\ pc \in Running
    /\ pc' = "interrupted"
    /\ err' = "KeyboardInterrupt"
    /\ fileOpen' = FALSE
    /\ UNCHANGED <<mode, args, config, nframes, lineagefile, outputs,
                   lineage, copy_forward_calls, padBound, pad, shape, realimages,
                   synthimages, cellmaps, realimage, synthimage, cellmap,
                   window_start, window_end, totalCostDiff, calls, returned,
                   perturbed, cmdline, parsed, listing>>

\* ------------------------------------------------------------ parse_args
InitArgs ==
    /\ mode = "parse_args"
    /\ \E w \in -1..MaxArg, j \in -1..MaxArg, k \in 0..(MaxArg + 1),
          cl \in {"", "tcp://scheduler"}, cpus \in 1..MaxArg :
          cmdline = [used |-> TRUE, workers |-> w, jobs |-> j, keep |-> k,
                     cluster |-> cl, cpu_count |-> cpus]
    /\ parsed = [status |-> "idle"]

\* main.py:89-90
DefaultWorkers(c) == IF c.workers = -1 THEN c.cpu_count ELSE c.workers

\* main.py:87-98: the namespace parse_args returns, or the error it raises
parse_args(c) ==
    LET workers == DefaultWorkers(c)
    IN  IF c.jobs = -1
        THEN IF c.cluster # ""
             THEN [status |-> "ValueError"]
             ELSE [status |-> "ok", workers |-> workers, jobs |-> workers,
                   keep |-> c.keep, cluster |-> c.cluster]
        ELSE [status |-> "ok", workers |-> workers, jobs |-> c.jobs,
              keep |-> c.keep, cluster |-> c.cluster]

ParseArgs ==
    /\ mode = "parse_args" /\ parsed.status = "idle"
    /\ parsed' = parse_args(cmdline)
    /\ UNCHANGED <<mode, mainVars, cmdline, listing>>

\* --------------------------------------------------------- frame listing
InitListing ==
    /\ mode = "listing"
    /\ \E ex \in SUBSET (0..MaxFile), ff \in -1..MaxFile, lf \in -1..MaxFile :
          listing = [used |-> TRUE, exists |-> ex, frame_first |-> ff,
                     frame_last |-> lf, inputfiles |-> [status |-> "idle"],
                     image_file_paths |-> [status |-> "idle"]]

\* main.py:134-144: the loop `for i in count(args.frame_first)`
RECURSIVE inputfiles_loop(_, _, _, _, _)
inputfiles_loop(exists, first, last, i, inputfiles) ==
    IF i \in exists
    THEN IF i = last
         THEN [status |-> "ok", files |-> Append(inputfiles, i)]
         ELSE inputfiles_loop(exists, first, last, i + 1, Append(inputfiles, i))
    ELSE IF last < 0 /\ first # i
    THEN [status |-> "ok", files |-> inputfiles]
    ELSE [status |-> "ValueError", files |-> <<>>]

\* main.py:125-145
get_inputfiles(exists, first, last) ==
    IF first > last /\ last >= 0
    THEN [status |-> "ValueError", files |-> <<>>]
    ELSE IF first < 0
    THEN [status |-> "ValueError", files |-> <<>>]
    ELSE inputfiles_loop(exists, first, last, first, <<>>)

\* CellUniverse.py:19-34 with z_slices = 1: the while loop and the except clause
RECURSIVE image_paths_loop(_, _, _, _, _)
image_paths_loop(exists, first, last, i, image_path_stack) ==
    IF last = -1 \/ i <= last
    THEN IF i \in exists
         THEN image_paths_loop(exists, first, last, i + 1, Append(image_path_stack, i))
         ELSE IF last # -1 /\ Len(image_path_stack) # last - first + 1
         THEN [status |-> "ValueError", files |-> <<>>]
         ELSE [status |-> "ok", files |-> image_path_stack]
    ELSE [status |-> "ok", files |-> image_path_stack]

\* CellUniverse.py:13-35
get_image_file_paths(exists, first, last) ==
    image_paths_loop(exists, first, last, first, <<>>)

CallGetInputfiles ==
    /\ mode = "listing" /\ listing.inputfiles.status = "idle"
    /\ listing' = [listing EXCEPT !.inputfiles =
                      get_inputfiles(listing.exists, listing.frame_first, listing.frame_last)]
    /\ UNCHANGED <<mode, mainVars, cmdline, parsed>>

CallGetImageFilePaths ==
    /\ mode = "listing" /\ listing.image_file_paths.status = "idle"
    /\ listing' = [listing EXCEPT !.image_file_paths =
                      get_image_file_paths(listing.exists, listing.frame_first, listing.frame_last)]
    /\ UNCHANGED <<mode, mainVars, cmdline, parsed>>

\* ---------------------------------------------------------------- claims
FrameList(n) == [i \in 1..n |-> i - 1]
LoggedFrames == [j \in 1..(Len(lineagefile) - 1) |-> lineagefile[j + 1].frame]
Padding == IF config.has_padding THEN config.padding ELSE 0

\* C1: a run that finishes without error has written the lineage record and
\* the output images of exactly the frames 0..N-1, each once, in increasing
\* order, with no gap and nothing beyond N-1.
C1_AllFramesCommittedOnce ==
    pc = "done" =>
        /\ Len(lineagefile) = nframes + 1
        /\ lineagefile[1] = Header
        /\ \A j \in 2..Len(lineagefile) : lineagefile[j].kind = "frame"
        /\ LoggedFrames = FrameList(nframes)
        /\ outputs = FrameList(nframes)

C1_Witness ==
    /\ pc = "done"
    /\ config.window_size = 3
    /\ nframes = MaxFrames
    /\ args.continue_from > 0
    /\ returned # {}

\* C2: once frame i is committed, every later call of copy_forward,
\* auto_temp_schedule or global_optimize is made for a window whose
\* window_start is greater than i, and the committed frame's node set is the
\* one the lineage still holds.
C2_CommittedFramesLeftAlone ==
    /\ \A k \in 1..Len(calls) :
          \A i \in calls[k].committed : calls[k].window_start > i
    /\ \A j \in 2..Len(lineagefile) :
          /\ lineagefile[j].frame + 1 <= Len(lineage)
          /\ lineage[lineagefile[j].frame + 1].ver = lineagefile[j].ver

C2_Witness ==
    /\ \E k \in 1..Len(calls) :
          calls[k].fn = "copy_forward" /\ calls[k].committed # {}
    /\ \E k \in 1..Len(calls) :
          calls[k].fn = "auto_temp_schedule" /\ calls[k].committed # {}
    /\ \E k \in 1..Len(calls) :
          calls[k].fn = "global_optimize" /\ calls[k].committed # {}
    /\ \E j \in 2..Len(lineagefile) : lineagefile[j].ver.kind = "optimized"

\* C3: the driver visits window_start = 1-W..N-1 in increasing order and the
\* window end handed to every call of global_optimize satisfies
\* 1 <= window_end <= N.
C3_WindowEndClipped ==
    /\ pc \in {"estimate", "autotemp", "dispatch", "optimizing", "commit"} =>
          (1 - config.window_size <= window_start /\ window_start <= nframes - 1)
    /\ \A k \in 1..Len(calls) :
          calls[k].fn = "global_optimize" =>
              (1 <= calls[k].window_end /\ calls[k].window_end <= nframes)

\* C4: with iteration_per_cell = 0 and the modification.*.mu / sigma keys in
\* the perturbation section, the run starts and completes without error and
\* no committed frame has been perturbed.
C4_ZeroIterationsRun ==
    (config.iteration_per_cell = 0 /\ config.modification_keys) =>
        /\ err # "ZeroDivisionError"
        /\ ~perturbed
        /\ \A j \in 2..Len(lineagefile) : lineagefile[j].ver = NoStamp

\* the log is the header and then frames 0..k-1, each after its job returned
C5_LogWellFormed ==
    Len(lineagefile) > 0 =>
        /\ lineagefile[1] = Header
        /\ \A j \in 2..Len(lineagefile) :
              /\ lineagefile[j].kind = "frame"
              /\ lineagefile[j].frame = j - 2
              /\ Dispatches(lineagefile[j].frame, SimStart(args)) =>
                    lineagefile[j].frame \in returned
\* a step keeps every line already in the log
C5_AppendOnly ==
    /\ Len(lineagefile) <= Len(lineagefile')
    /\ \A j \in 1..Len(lineagefile) : lineagefile'[j] = lineagefile[j]

C8_PaddingOptional ==
    /\ err # "UnboundLocalError"
    /\ \A i \in 1..Len(synthimages) :
          /\ realimages[i].h = ImgH + 2 * Padding
          /\ realimages[i].w = ImgW + 2 * Padding
    /\ Len(synthimages) > 0 =>
          /\ shape = [h |-> ImgH + 2 * Padding, w |-> ImgW + 2 * Padding]
          /\ \A i \in 1..Len(lineage) : lineage[i].shift = Padding

\* C9: the cost baseline of every dispatched window is computed from the real
\* image, synthetic image and cell map of frame min(window_end, N) - 1 as they
\* stand in the image lists at the dispatch.
C9_BaselineFromNewestFrame ==
    pc = "optimizing" =>
        LET f == Min(window_end, nframes)
        IN  /\ f <= Len(synthimages)
            /\ totalCostDiff.real = realimages[f]
            /\ totalCostDiff.synth = synthimages[f]
            /\ totalCostDiff.cellmap = cellmaps[f]

\* C10: for a lineage seeded with frame 0 only and continue_from =
\* frame_first, whenever the driver reads lineage frame window_end - 1 the
\* frame exists and copy_forward has been called exactly once for each of the
\* frames 1..window_end-1, so the frame read is the newest one.
C10_FrameReadIsNewest ==
    (args.lineage_frames = 1 /\ args.continue_from = args.frame_first) =>
        /\ err # "IndexError"
        /\ pc = "autotemp" =>
              /\ Len(lineage) = window_end
              /\ copy_forward_calls = window_end - 1
              /\ window_end > 1 => lineage[window_end].origin = "copy"

\* the requested interval, the first frame without a file, and its handling
ValidInterval ==
    /\ listing.frame_first >= 0
    /\ listing.frame_last >= -1
    /\ (listing.frame_last = -1 \/ listing.frame_first <= listing.frame_last)
FirstMissing ==
    CHOOSE i \in listing.frame_first..(MaxFile + 1) :
        /\ i \notin listing.exists
        /\ \A k \in listing.frame_first..(i - 1) : k \in listing.exists
MissingHandled(r) ==
    LET i == FirstMissing
    IN  (r.status # "idle" /\ (listing.frame_last = -1 \/ i <= listing.frame_last)) =>
            IF i = listing.frame_first \/ listing.frame_last >= i
            THEN r.status = "ValueError"
            ELSE /\ r.status = "ok"
                 /\ r.files = [k \in 1..(i - listing.frame_first) |->
                                  listing.frame_first + k - 1]
                 /\ r.files # <<>>
\* C6: both frame-listing functions treat a missing input file for frame i the
\* same way: fatal (ValueError) when i is the first requested frame or an
\* explicit last frame >= i was requested; only with an open-ended last frame
\* (-1) and i past the first frame does listing stop gracefully, returning
\* exactly the frames first_frame..i-1 (never an empty list).
C6_MissingFrameHandling ==
    ValidInterval =>
        /\ MissingHandled(listing.inputfiles)
        /\ MissingHandled(listing.image_file_paths)

\* C7: every argument set parse_args returns satisfies keep <= jobs.
C7_KeepAtMostJobs ==
    parsed.status = "ok" => parsed.keep <= parsed.jobs

\* C11: for every argument combination that passes the startup check, at every
\* dispatch of global_optimize both start_temp and end_temp hold defined
\* values: both supplied manually, or set by an auto-temperature calibration
\* that ran earlier in the same run.
C11_TempsDefinedAtDispatch ==
    pc = "optimizing" =>
        /\ args.start_temp \in {"manual", "auto"}
        /\ args.end_temp \in {"manual", "auto"}
        /\ args.start_temp = "auto" =>
              \E k \in 1..Len(calls) : calls[k].fn = "auto_temp_schedule"

\* -------------------------------------------------------- specifications
Init == InitMain /\ IdleArgs /\ IdleListing

Next ==
    \/ CheckTemps
    \/ OpenLineage
    \/ GlobalSetup
    \/ LoopHead
    \/ Estimate
    \/ AutoTemp
    \/ Dispatch
    \/ OptimizeReturn
    \/ Commit
    \/ KeyboardInterrupt

Spec == Init /\ [][Next]_vars

InitParse == InitArgs /\ IdleMain /\ IdleListing
NextArgs == ParseArgs
SpecArgs == InitParse /\ [][NextArgs]_vars

InitFiles == InitListing /\ IdleMain /\ IdleArgs
NextFiles ==
    \/ CallGetInputfiles
    \/ CallGetImageFilePaths
SpecFiles == InitFiles /\ [][NextFiles]_vars

====
